---- MODULE Spec2Model ----
(***************************************************************************)
(* Model of seamove/cmove.py: the continuous file mover.                   *)
(*                                                                         *)
(*   main()   the scan loop: while True: cmove(...); wait(...)             *)
(*   cmove()  one batch: a ThreadPoolExecutor, one _move task per regular  *)
(*            file of the target directory, joined when the with-block     *)
(*            is left                                                      *)
(*   _move()  shutil.move, then log.info; on shutil.Error log.warning and  *)
(*            os.remove                                                    *)
(*   wait()   the sleep between two batches, one second per step           *)
(***************************************************************************)
EXTENDS Integers, Sequences, FiniteSets, TLC

\* ---------------------------------------------------------------- bounds
NumFiles == 2
MaxThreads == 2
MaxSleep == 2
MaxScans == 2

\* ThreadPoolExecutor(max_workers=None) uses min(32, cpu_count + 4) workers,
\* which is at least 5.
DefaultWorkers == 5

Files == 1..NumFiles

\* An optional command line value: None when the option is absent
\* (default=None), Some(n) when it is given.
None == <<>>
Some(n) == <<n>>

ThreadsArgs == {None} \cup {Some(n) : n \in (-1)..MaxThreads}
SleepArgs == {None} \cup {Some(n) : n \in (-1)..MaxSleep}

VARIABLES
    threads,     \* args.threads
    seconds,     \* args.sleep
    targetIsDir, \* the target argument resolves to a directory at startup
    sameDir,     \* target and destination resolve to the same directory
    destKind,    \* what is at the destination path: "dir" | "missing" | "file"
    destFile,    \* the file that sits at the destination path (0: none)
    caughtAt,    \* where main stood when KeyboardInterrupt was raised
    src,         \* the target directory: name -> "none" | "file" | "dir"
    dst,         \* the destination directory: name -> "none" | "old" | "copy" | "partial"
    pc,          \* position of the main thread
    exitStatus,  \* exit status of the process, -1 while it runs
    signal,      \* SIGINT: "none" | "pending" | "raised"
    todo,        \* entries of target.glob("*") not yet iterated
    poolSize,    \* max_workers of the current executor
    queue,       \* the executor's work queue
    tpc,         \* position of each file's _move task
    prim,        \* what shutil.move did for each file in this batch
    log,         \* the log records of this batch, per file
    atStart,     \* the two directories as they were when the batch began
    completed,   \* progress task: completed steps
    finished,    \* progress task: finished
    slept,       \* time.sleep(1) calls of the current wait
    scans        \* batches begun so far (saturates at MaxScans)

vars == <<threads, seconds, targetIsDir, sameDir, destKind, destFile, caughtAt,
          src, dst, pc, exitStatus, signal, todo, poolSize,
          queue, tpc, prim, log, atStart, completed, finished, slept, scans>>

config == <<threads, seconds, targetIsDir, sameDir>>
fs == <<src, dst, destKind, destFile>>
pool == <<poolSize, queue, tpc, prim, log, atStart>>
progress == <<completed, finished, slept>>

\* --------------------------------------------------------------- helpers

\* Python truth value of an optional int: `not seconds`.
Falsy_noneOnly(x) == x = None
Falsy(x) == x = None \/ x = Some(0)

\* Tasks a worker thread is executing.
Running == {f \in Files : tpc[f] \in {"move", "info", "warn", "remove"}}

\* shutdown(wait=True): every worker thread has been joined, which happens
\* once the work queue is empty and no task is executing.
PoolDrained_nowait == TRUE
PoolDrained == queue = <<>> /\ Running = {}

\* os.path.isfile(entry), the filter of the directory listing.
IsFile_any(f) == src[f] # "none"
IsFile(f) == src[f] = "file"

\* A worker thread is free to take a work item: the executor runs at most
\* max_workers threads.
WorkerFree_unbounded == TRUE
WorkerFree == Cardinality(Running) < poolSize

\* os.path.exists(dest/<name>): the entry of that name in the destination
\* directory, which is the target directory itself when both are the same.
DestEntry(f) == IF sameDir THEN src[f] ELSE dst[f]

\* The exceptions shutil.move raises other than shutil.Error.
Failures == {"eperm", "enospc"}

\* What shutil.move(file, dest) can do for file f.  It raises shutil.Error
\* when dest/<name> exists; otherwise it renames, and when the rename fails
\* it copies and unlinks: the copy can fail before anything is written
\* (eperm) or after part of the file was written (enospc).
\* When the destination path is not a directory (it was removed after
\* startup, or an earlier move put a file there), shutil.move renames the file
\* onto the destination path itself ("onto"), replacing what is there.
MoveResults_overwrite(f) == {"ok", "eperm", "enospc"}
MoveResults(f) ==
    IF destKind # "dir" THEN {"onto", "eperm"}
    ELSE IF DestEntry(f) # "none" THEN {"occupied"}
    ELSE {"ok", "eperm", "enospc"}

\* The target directory after shutil.move ended with result r for file f.
SrcAfterMove_copy(r, f) == src
SrcAfterMove(r, f) ==
    IF r \in {"ok", "onto"} THEN [src EXCEPT ![f] = "none"] ELSE src

\* The destination directory after shutil.move ended with result r.
DstAfterMove(r, f) ==
    CASE r = "ok" -> [dst EXCEPT ![f] = "copy"]
      [] r = "enospc" -> [dst EXCEPT ![f] = "partial"]
      [] OTHER -> dst

\* The destination path after shutil.move ended with result r for file f.
DestKindAfterMove(r) == IF r = "onto" THEN "file" ELSE destKind
DestFileAfterMove(r, f) == IF r = "onto" THEN f ELSE destFile

\* The log records of _move.
InfoRecord(f) == [level |-> "info", file |-> f, paths |-> {"file", "dest"}]
WarningRecord(f) == [level |-> "warning", file |-> f, paths |-> {"file"}]

\* ------------------------------------------------------------------ Init
\* The state when main starts, before the arguments are parsed.  With
\* target and destination the same directory there is one listing, src.
InitEnv ==
    /\ threads \in ThreadsArgs
    /\ seconds \in SleepArgs
    /\ targetIsDir \in BOOLEAN
    /\ sameDir \in BOOLEAN
    /\ destKind \in {"dir", "missing"}
    /\ destFile = 0
    /\ caughtAt = "none"
    /\ src \in [Files -> {"none", "file", "dir"}]
    /\ dst \in [Files -> {"none", "old"}]
    /\ sameDir => (targetIsDir /\ destKind = "dir" /\ dst = [f \in Files |-> "none"])
    /\ pc = "start"
    /\ exitStatus = -1
    /\ signal = "none"
    /\ todo = {}
    /\ poolSize = 0
    /\ queue = <<>>
    /\ tpc = [f \in Files |-> "idle"]
    /\ prim = [f \in Files |-> "none"]
    /\ log = [f \in Files |-> <<>>]
    /\ atStart = [src |-> src, dst |-> dst, dest |-> destKind]
    /\ completed = 0
    /\ finished = FALSE
    /\ slept = 0
    /\ scans = 0

\* Two distinct directories are given.
Init == InitEnv /\ sameDir = FALSE

\* main, line 157-161: the arguments are parsed; dir_validator yields None
\* for a path that is not a directory, and main then raises SystemExit()
\* without an argument, which is exit status 0.  Otherwise the loop begins.
ParseArgs ==
    /\ pc = "start"
    /\ IF targetIsDir /\ destKind = "dir"
       THEN pc' = "scan" /\ UNCHANGED exitStatus
       ELSE pc' = "rejected" /\ exitStatus' = 0
    /\ UNCHANGED <<config, caughtAt, fs, signal, todo, pool, progress, scans>>

\* ----------------------------------------------------------- main thread

\* cmove, line 131-132: the executor is created and the directory listed.
\* ThreadPoolExecutor raises ValueError for max_workers <= 0; main catches
\* only KeyboardInterrupt, so the process dies with a traceback.
CreateExecutor ==
    /\ pc = "scan"
    /\ signal # "pending"
    /\ IF threads # None /\ threads[1] <= 0
       THEN /\ pc' = "crashed"
            /\ exitStatus' = 1
            /\ UNCHANGED <<todo, pool, scans>>
       ELSE /\ pc' = "dispatch"
            /\ poolSize' = IF threads = None THEN DefaultWorkers ELSE threads[1]
            /\ todo' = {f \in Files : src[f] # "none"}
            /\ queue' = <<>>
            /\ tpc' = [f \in Files |-> "idle"]
            /\ prim' = [f \in Files |-> "none"]
            /\ log' = [f \in Files |-> <<>>]
            /\ atStart' = [src |-> src, dst |-> dst, dest |-> destKind]
            /\ scans' = IF scans < MaxScans THEN scans + 1 ELSE scans
            /\ UNCHANGED exitStatus
    /\ UNCHANGED <<config, caughtAt, fs, signal, progress>>

\* cmove, line 132-133: the next entry is filtered by os.path.isfile and,
\* when it is a regular file, submitted.
Dispatch(f) ==
    /\ pc = "dispatch"
    /\ signal # "pending"
    /\ f \in todo
    /\ todo' = todo \ {f}
    /\ IF IsFile(f)
       THEN /\ queue' = Append(queue, f)
            /\ tpc' = [tpc EXCEPT ![f] = "queued"]
       ELSE UNCHANGED <<queue, tpc>>
    /\ UNCHANGED <<config, caughtAt, fs, pc, exitStatus, signal, poolSize, prim, log,
                   atStart, progress, scans>>

\* cmove, line 131: the for loop is over, the with-block is left and
\* executor.shutdown(wait=True) begins.
EnterShutdown ==
    /\ pc = "dispatch"
    /\ signal # "pending"
    /\ todo = {}
    /\ pc' = "drain"
    /\ UNCHANGED <<config, caughtAt, fs, exitStatus, signal, todo, pool, progress, scans>>

\* main, line 174-177: shutdown has joined the workers, cmove returns and
\* wait is called.
Drained_skipWait ==
    /\ pc = "drain"
    /\ signal # "pending"
    /\ PoolDrained
    /\ pc' = "scan"
    /\ UNCHANGED <<config, caughtAt, fs, exitStatus, signal, todo, pool, progress, scans>>
Drained ==
    /\ pc = "drain"
    /\ signal # "pending"
    /\ PoolDrained
    /\ pc' = "wait"
    /\ UNCHANGED <<config, caughtAt, fs, exitStatus, signal, todo, pool, progress, scans>>

\* wait, line 102-106: return at once for a falsy interval, else add the
\* progress task with total=seconds.
WaitEnter ==
    /\ pc = "wait"
    /\ signal # "pending"
    /\ IF Falsy(seconds)
       THEN /\ pc' = "scan"
            /\ UNCHANGED progress
       ELSE /\ pc' = "sleep"
            /\ completed' = 0
            /\ finished' = FALSE
            /\ slept' = 0
    /\ UNCHANGED <<config, caughtAt, fs, exitStatus, signal, todo, pool, scans>>

\* wait, line 107-109: one turn of the loop: advance the task by one (it
\* becomes finished when completed >= total), then sleep one second.
SleepTick ==
    /\ pc = "sleep"
    /\ signal # "pending"
    /\ ~finished
    /\ completed' = completed + 1
    /\ finished' = (completed + 1 >= seconds[1])
    /\ slept' = slept + 1
    /\ UNCHANGED <<config, caughtAt, fs, pc, exitStatus, signal, todo, pool, scans>>

\* wait, line 107: the progress is finished, wait returns and the loop of
\* main starts the next batch.
SleepDone ==
    /\ pc = "sleep"
    /\ signal # "pending"
    /\ finished
    /\ pc' = "scan"
    /\ UNCHANGED <<config, caughtAt, fs, exitStatus, signal, todo, pool, progress, scans>>

\* The user presses Ctrl-C.
Interrupt ==
    /\ signal = "none"
    /\ pc \notin {"start", "rejected", "stopped", "crashed"}
    /\ signal' = "pending"
    /\ UNCHANGED <<config, caughtAt, fs, pc, exitStatus, todo, pool, progress, scans>>

\* main, line 179-180: KeyboardInterrupt is raised in the main thread where
\* it stands and turned into SystemExit().  Raised inside cmove, the
\* exception leaves through the with-block (or the interpreter's exit),
\* which joins the worker threads before the process ends.
KeyboardInterrupt_uncaught ==
    /\ signal = "pending"
    /\ signal' = "raised"
    /\ caughtAt' = pc
    /\ IF pc \in {"dispatch", "drain"}
       THEN pc' = "unwind" /\ UNCHANGED exitStatus
       ELSE pc' = "stopped" /\ exitStatus' = 1
    /\ UNCHANGED <<config, fs, todo, pool, progress, scans>>
KeyboardInterrupt ==
    /\ signal = "pending"
    /\ signal' = "raised"
    /\ caughtAt' = pc
    /\ IF pc \in {"dispatch", "drain"}
       THEN pc' = "unwind" /\ UNCHANGED exitStatus
       ELSE pc' = "stopped" /\ exitStatus' = 0
    /\ UNCHANGED <<config, fs, todo, pool, progress, scans>>

\* A KeyboardInterrupt raised inside shutdown's thread.join(): on CPython
\* 3.10 to 3.12 the interrupted join marks the joined worker thread as
\* stopped although it is running, and the interpreter's exit no longer
\* waits for it; the process ends when the other workers have ended.
JoinLost ==
    /\ caughtAt = "drain"
    /\ Cardinality(Running) <= 1
    /\ (queue = <<>> \/ poolSize = 1)

\* main, line 180: SystemExit; the interpreter joins the worker threads it
\* still waits for and the process exits.
Exit ==
    /\ pc = "unwind"
    /\ PoolDrained \/ JoinLost
    /\ pc' = "stopped"
    /\ exitStatus' = 0
    /\ UNCHANGED <<config, caughtAt, fs, signal, todo, pool, progress, scans>>

\* --------------------------------------------------------------- workers

\* A worker thread takes the next work item, at most poolSize at a time.
StartTask_peek ==
    /\ pc \in {"dispatch", "drain", "unwind"}
    /\ queue # <<>>
    /\ WorkerFree
    /\ tpc' = [tpc EXCEPT ![Head(queue)] = "move"]
    /\ queue' = queue
    /\ UNCHANGED <<config, caughtAt, fs, pc, exitStatus, signal, todo, poolSize, prim,
                   log, atStart, progress, scans>>
StartTask ==
    /\ pc \in {"dispatch", "drain", "unwind"}
    /\ queue # <<>>
    /\ WorkerFree
    /\ tpc' = [tpc EXCEPT ![Head(queue)] = "move"]
    /\ queue' = Tail(queue)
    /\ UNCHANGED <<config, caughtAt, fs, pc, exitStatus, signal, todo, poolSize, prim,
                   log, atStart, progress, scans>>

\* The task raised: the work item stores the exception in its future, which
\* nobody reads; nothing reaches the main thread.
FutureSetException_propagate(f) ==
    /\ tpc' = [tpc EXCEPT ![f] = "done"]
    /\ pc' = "crashed"
    /\ exitStatus' = 1
FutureSetException(f) ==
    /\ tpc' = [tpc EXCEPT ![f] = "done"]
    /\ UNCHANGED <<pc, exitStatus>>

\* _move, line 122-123 and 126: shutil.move(file, dest).
ShutilMove(f) ==
    /\ tpc[f] = "move"
    /\ \E r \in MoveResults(f) :
          /\ prim' = [prim EXCEPT ![f] = r]
          /\ src' = SrcAfterMove(r, f)
          /\ dst' = DstAfterMove(r, f)
          /\ destKind' = DestKindAfterMove(r)
          /\ destFile' = DestFileAfterMove(r, f)
          /\ CASE r \in {"ok", "onto"} ->
                    tpc' = [tpc EXCEPT ![f] = "info"] /\ UNCHANGED <<pc, exitStatus>>
               [] r = "occupied" ->
                    tpc' = [tpc EXCEPT ![f] = "warn"] /\ UNCHANGED <<pc, exitStatus>>
               [] OTHER -> FutureSetException(f)
    /\ UNCHANGED <<config, caughtAt, signal, todo, poolSize, queue, log, atStart,
                   progress, scans>>

\* _move, line 124: log.info after the move.
LogInfo(f) ==
    /\ tpc[f] = "info"
    /\ log' = [log EXCEPT ![f] = Append(@, InfoRecord(f))]
    /\ tpc' = [tpc EXCEPT ![f] = "done"]
    /\ UNCHANGED <<config, caughtAt, fs, pc, exitStatus, signal, todo, poolSize, queue,
                   prim, atStart, progress, scans>>

\* _move, line 128: log.warning in the shutil.Error handler.
LogWarning(f) ==
    /\ tpc[f] = "warn"
    /\ log' = [log EXCEPT ![f] = Append(@, WarningRecord(f))]
    /\ tpc' = [tpc EXCEPT ![f] = "remove"]
    /\ UNCHANGED <<config, caughtAt, fs, pc, exitStatus, signal, todo, poolSize, queue,
                   prim, atStart, progress, scans>>

\* _move, line 129: os.remove(file).
OsRemove(f) ==
    /\ tpc[f] = "remove"
    /\ src' = [src EXCEPT ![f] = "none"]
    /\ tpc' = [tpc EXCEPT ![f] = "done"]
    /\ UNCHANGED <<config, caughtAt, dst, destKind, destFile, pc, exitStatus, signal, todo, poolSize, queue,
                   prim, log, atStart, progress, scans>>

\* The destination directory is removed while the program runs.
RemoveDestination ==
    /\ pc \notin {"start", "rejected", "stopped", "crashed"}
    /\ ~sameDir
    /\ destKind = "dir"
    /\ destKind' = "missing"
    /\ dst' = [f \in Files |-> "none"]
    /\ UNCHANGED <<config, caughtAt, src, destFile, pc, exitStatus, signal, todo,
                   pool, progress, scans>>

\* ------------------------------------------------------------------ Next
Next ==
    \/ ParseArgs
    \/ CreateExecutor
    \/ \E f \in Files : Dispatch(f)
    \/ EnterShutdown
    \/ Drained
    \/ WaitEnter
    \/ SleepTick
    \/ SleepDone
    \/ Interrupt
    \/ KeyboardInterrupt
    \/ Exit
    \/ StartTask
    \/ \E f \in Files : ShutilMove(f)
    \/ \E f \in Files : LogInfo(f)
    \/ \E f \in Files : LogWarning(f)
    \/ \E f \in Files : OsRemove(f)

Spec == Init /\ [][Next]_vars

\* The program in an environment where target and destination may be the
\* same directory and the destination may disappear.
NextEnv == Next \/ RemoveDestination

SpecEnv == InitEnv /\ [][NextEnv]_vars

TypeOK ==
    /\ threads \in ThreadsArgs
    /\ seconds \in SleepArgs
    /\ src \in [Files -> {"none", "file", "dir"}]
    /\ dst \in [Files -> {"none", "old", "copy", "partial"}]
    /\ targetIsDir \in BOOLEAN
    /\ sameDir \in BOOLEAN
    /\ destKind \in {"dir", "missing", "file"}
    /\ destFile \in {0} \cup Files
    /\ caughtAt \in {"none", "scan", "dispatch", "drain", "wait", "sleep"}
    /\ pc \in {"start", "rejected", "scan", "dispatch", "drain", "wait", "sleep",
               "unwind", "stopped", "crashed"}
    /\ exitStatus \in {-1, 0, 1}
    /\ signal \in {"none", "pending", "raised"}
    /\ todo \subseteq Files
    /\ tpc \in [Files -> {"idle", "queued", "move", "info", "warn", "remove", "done"}]
    /\ prim \in [Files -> {"none", "ok", "onto", "occupied", "eperm", "enospc"}]
    /\ slept \in 0..MaxSleep
    /\ scans \in 0..MaxScans

\* ------------------------------------------------------------ properties

\* cmove has returned to main and the next batch has not begun.
BatchDone == pc \in {"wait", "sleep"}

\* The states of the scan loop.
Phase(p) ==
    CASE p \in {"scan", "dispatch", "drain"} -> "Scanning"
      [] p \in {"wait", "sleep"} -> "Waiting"
      [] p = "unwind" -> "Stopping"
      [] p = "stopped" -> "Stopped"
      [] p = "start" -> "Startup"
      [] p = "rejected" -> "Rejected"
      [] OTHER -> "Crashed"

\* The regular files of the target directory when the batch began.
Scanned == {f \in Files : atStart.src[f] = "file"}

\* The files of the a.txt / b.txt scenario.
ScenarioFiles == {1, 2}

\* C1: once a batch has completed, every file that was in the source at scan
\* start is in exactly one of source and destination, never in both and
\* never in neither.
C1_NoDataLoss ==
    BatchDone =>
        \A f \in Scanned : (src[f] = "file") # (dst[f] # "none")

\* C2: a file whose name is free in the destination and whose move succeeds
\* is gone from the source, present in the destination and has exactly one
\* info record; with source {a.txt, b.txt}, an empty destination and two
\* workers the batch leaves the source empty, both files in the destination
\* and two info records.
C2_Moved ==
    BatchDone =>
        /\ \A f \in Scanned :
              (atStart.dst[f] = "none" /\ prim[f] = "ok") =>
                  /\ src[f] = "none"
                  /\ dst[f] = "copy"
                  /\ log[f] = <<InfoRecord(f)>>
        /\ ( /\ threads = Some(2)
             /\ Scanned = ScenarioFiles
             /\ \A f \in Files : atStart.dst[f] = "none"
             /\ \A f \in ScenarioFiles : prim[f] = "ok" )
           => /\ \A f \in Files : src[f] # "file"
              /\ {f \in Files : dst[f] # "none"} = ScenarioFiles
              /\ Cardinality({f \in Files : Len(log[f]) = 1
                                 /\ log[f][1].level = "info"}) = 2
              /\ \A f \in Files : Len(log[f]) <= 1

C2_Witness ==
    /\ BatchDone
    /\ threads = Some(2)
    /\ Scanned = ScenarioFiles
    /\ \A f \in ScenarioFiles :
          /\ atStart.dst[f] = "none"
          /\ prim[f] = "ok"
          /\ src[f] = "none"
          /\ dst[f] = "copy"
          /\ log[f] = <<InfoRecord(f)>>

C4_FailureContained ==
    /\ \A f \in Files : prim[f] \in Failures =>
          /\ src[f] = "file"
          /\ pc # "crashed"
          /\ exitStatus # 1
    /\ BatchDone => \A f \in Scanned : tpc[f] = "done"

C4_Witness ==
    /\ BatchDone
    /\ \E f, g \in Scanned :
          /\ prim[f] \in Failures
          /\ src[f] = "file"
          /\ prim[g] = "ok"
          /\ src[g] = "none"
          /\ tpc[g] = "done"

\* C5: when a batch has completed, every task of it has emitted exactly one
\* record: info for a move, warning for a duplicate, error for a failure,
\* each naming the file and the destination.
C5_OneEventPerTask ==
    BatchDone =>
        \A f \in Scanned :
            /\ Len(log[f]) = 1
            /\ log[f][1].level =
                  (CASE prim[f] = "ok" -> "info"
                     [] prim[f] = "occupied" -> "warning"
                     [] OTHER -> "error")
            /\ log[f][1].file = f
            /\ log[f][1].paths = {"file", "dest"}

\* C6: whenever main is outside cmove (before a batch, in wait) no task of
\* a batch is queued or executing, and cmove returns only with every
\* dispatched task finished.
C6_DrainBarrier ==
    /\ pc \in {"scan", "wait", "sleep"} =>
          /\ queue = <<>>
          /\ \A f \in Files : tpc[f] \in {"idle", "done"}
    /\ BatchDone => \A f \in Scanned : tpc[f] = "done"

C6_Witness ==
    /\ pc = "wait"
    /\ Cardinality(Scanned) >= 2
    /\ \A f \in Scanned : tpc[f] = "done"

\* C7: the loop starts in Scanning; a batch is begun only at the start or
\* out of Waiting; Waiting is entered only out of Scanning with the batch
\* run to completion; Stopped is entered only when an interrupt was raised.
C7_Alternation ==
    /\ pc = "start"
    /\ [][ /\ pc = "start" => pc' \in {"scan", "rejected"}
           /\ (pc' = "scan" /\ pc # "scan") => Phase(pc) \in {"Startup", "Waiting"}
           /\ (Phase(pc') = "Waiting" /\ Phase(pc) # "Waiting") =>
                 /\ pc = "drain"
                 /\ todo' = {}
                 /\ queue' = <<>>
                 /\ \A f \in Files : tpc'[f] \in {"idle", "done"}
           /\ (Phase(pc') = "Scanning" /\ Phase(pc) # "Scanning") =>
                 Phase(pc) \in {"Startup", "Waiting"}
           /\ (Phase(pc') \in {"Stopping", "Stopped"} /\ Phase(pc') # Phase(pc)) =>
                 signal' = "raised"
         ]_vars

C7_Witness ==
    /\ scans = 2
    /\ pc = "wait"
    /\ signal = "none"

\* C8: with a sleep interval of 0 or None, wait never sleeps.
C8_NoSleep ==
    (seconds = None \/ seconds = Some(0)) => (pc # "sleep" /\ slept = 0)

C8_Witness ==
    /\ seconds = Some(0)
    /\ scans = 2
    /\ pc = "dispatch"
    /\ slept = 0

\* C9: an interrupt that arrives during the wait ends the process in the
\* very next step of the main thread: no further sleep step, no further
\* batch, exit status 0.
C9_InterruptInWait ==
    [][ (signal = "pending" /\ Phase(pc) = "Waiting") =>
            /\ pc' = "stopped"
            /\ exitStatus' = 0
            /\ slept' = slept
            /\ scans' = scans ]_vars

C9_Witness ==
    /\ pc = "stopped"
    /\ exitStatus = 0
    /\ signal = "raised"
    /\ seconds # None
    /\ ~finished
    /\ slept >= 1
    /\ slept < seconds[1]

\* C10: with the worker count omitted, zero or negative the batch runs on a
\* default-sized pool and the process does not die.
C10_DefaultWorkers ==
    (threads = None \/ threads[1] <= 0) =>
        /\ pc # "crashed"
        /\ pc \in {"dispatch", "drain", "wait", "sleep"} => poolSize = DefaultWorkers

\* The number of times file f stands in the work queue.
Queued(f) == Cardinality({i \in DOMAIN queue : queue[i] = f})

\* The levels of the records logged for file f in this batch.
Levels(f) == {log[f][i].level : i \in DOMAIN log[f]}

\* C11: only regular files are dispatched; a subdirectory of the source is
\* never submitted, moved or removed and gets no record.
C11_NonRecursive ==
    \A f \in Files :
        /\ atStart.src[f] = "dir" =>
              /\ src[f] = "dir"
              /\ tpc[f] = "idle"
              /\ prim[f] = "none"
              /\ log[f] = <<>>
        /\ tpc[f] # "idle" => atStart.src[f] = "file"

C11_Witness ==
    /\ BatchDone
    /\ \E f, g \in Files :
          /\ atStart.src[f] = "dir"
          /\ src[f] = "dir"
          /\ tpc[f] = "idle"
          /\ atStart.src[g] = "file"
          /\ prim[g] = "ok"
          /\ tpc[g] = "done"

\* C12: with a target or destination that is not a directory no batch is
\* ever run and the process ends with a non-zero exit status.
C12_InvalidConfigFatal ==
    (~targetIsDir \/ destKind # "dir") =>
        /\ pc \in {"start", "rejected"}
        /\ scans = 0
        /\ pc = "rejected" => exitStatus \notin {-1, 0}

\* C13: when the process has stopped after an interrupt, every move that had
\* been dispatched has run to completion.
C13_InFlightFinish ==
    pc = "stopped" =>
        /\ queue = <<>>
        /\ \A f \in Files : tpc[f] \in {"idle", "done"}

\* C14: a file of the listing is submitted once and its task is taken off
\* the queue once: it stands in the queue exactly while it is queued, and
\* entries not yet iterated have no task.
C14_ConsumedOnce ==
    /\ \A f \in Files :
          /\ Queued(f) = (IF tpc[f] = "queued" THEN 1 ELSE 0)
          /\ f \in todo => tpc[f] = "idle"
    /\ BatchDone => \A f \in Scanned : tpc[f] = "done"

C14_Witness ==
    /\ pc = "dispatch"
    /\ \E f, g \in Files :
          /\ f \in Running
          /\ Queued(f) = 0
          /\ g \in todo
          /\ src[g] = "file"

\* C15: with worker_count = n >= 1 at most n moves execute at a time.
C15_BoundedPool ==
    (threads # None /\ threads[1] >= 1) => Cardinality(Running) <= threads[1]

C15_Witness ==
    /\ threads = Some(1)
    /\ Cardinality(Running) = 1
    /\ queue # <<>>

\* C16: a file whose move failed and that is still in the source when the
\* next batch begins is, after that batch, still in the source or intact in
\* the destination.
C16_FailedFileKept ==
    BatchDone =>
        \A f \in Scanned :
            atStart.dst[f] = "partial" => (src[f] = "file" \/ dst[f] = "copy")

\* C17: with a negative interval wait performs no sleep step.
C17_NegativeSkipsWait ==
    (seconds # None /\ seconds[1] < 0) => (pc # "sleep" /\ slept = 0)

\* C18: when the destination directory is missing while a batch runs, the
\* moves of the batch count as failures: its files stay in the source and
\* no info record is logged for them.
C18_MissingDestination ==
    (BatchDone /\ atStart.dest = "missing") =>
        \A f \in Scanned :
            /\ src[f] = "file"
            /\ "info" \notin Levels(f)

\* C19: with source and destination the same directory, every regular file
\* present before a batch is still present after it.
C19_SameDirKeepsFiles ==
    (sameDir /\ BatchDone) => \A f \in Scanned : src[f] = "file"

\* C20: a record is logged only after its effect: an info record only with
\* the file in the destination and gone from the source, a warning record
\* only with the source copy removed.
C20_EventAfterEffect ==
    \A f \in Files :
        /\ "info" \in Levels(f) => (src[f] = "none" /\ dst[f] = "copy")
        /\ "warning" \in Levels(f) => src[f] = "none"

====
